---- MODULE Spec2Model ----
(***************************************************************************)
(* Model of src/app.py: a Flask + SQLAlchemy inventory application.        *)
(*                                                                         *)
(* The committed database is the four tables user, produto, cliente and    *)
(* venda.  Every request runs in a session of its own (Flask-SQLAlchemy's  *)
(* request-scoped session): what a handler changes reaches the tables only *)
(* at db.session.commit(), and a request that ends in an exception is      *)
(* rolled back when its session is removed at teardown.                    *)
(*                                                                         *)
(* Modelling conventions                                                   *)
(*  - a nullable column or form field is <<>> (None) or <<v>>;             *)
(*  - text is a sequence of one-character strings, so that strip, replace, *)
(*    int(), float(), str() and the csv module act on characters;          *)
(*  - a Float column holds a decimal number with two places, kept as an    *)
(*    integer number of hundredths (500 is 5.00);                          *)
(*  - primary keys are allocated as SQLite allocates an INTEGER PRIMARY    *)
(*    KEY (largest key in the table plus one), the store the code falls    *)
(*    back to (line 29); foreign keys are not enforced by that store;      *)
(*  - Venda.data (the insertion timestamp) is not modelled.                *)
(***************************************************************************)
EXTENDS Integers, Sequences, FiniteSets, TLC

VARIABLES user, produto, cliente, venda, sessao, wk, resposta, arquivo, imp

vars == <<user, produto, cliente, venda, sessao, wk, resposta, arquivo, imp>>

(***************************************************************************)
(* Bounds of the model.                                                    *)
(***************************************************************************)
MaxProdutos == 1
MaxClientes == 1
MaxVendas == 2
MaxEstoque == 2

Workers == {1, 2}

(***************************************************************************)
(* Nullable values.                                                        *)
(***************************************************************************)
Nulo == <<>>

Algum(v) == <<v>>

Valor(o) == o[1]

(***************************************************************************)
(* The committed database, as one value.                                   *)
(***************************************************************************)
bd == [user |-> user, produto |-> produto, cliente |-> cliente, venda |-> venda]

Max(S) == CHOOSE x \in S : \A y \in S : y <= x

\* The key the store gives the next inserted row of a table.
NovoId(tabela) == IF DOMAIN tabela = {} THEN 1 ELSE Max(DOMAIN tabela) + 1

Inserir(tabela, linha) ==
  [i \in DOMAIN tabela \cup {NovoId(tabela)} |->
     IF i \in DOMAIN tabela THEN tabela[i] ELSE linha]

Remover(tabela, id) == [i \in DOMAIN tabela \ {id} |-> tabela[i]]

Vazia == [i \in {} |-> Nulo]

(***************************************************************************)
(* One flushed statement of a unit of work.  An UPDATE or DELETE of a row  *)
(* that is no longer there matches no row, which the ORM raises as an      *)
(* error (StaleDataError).                                                 *)
(***************************************************************************)
Possivel(b, e) ==
  IF e.op \in {"update", "delete"} THEN e.id \in DOMAIN b[e.tabela] ELSE TRUE

Executar(b, e) ==
  CASE e.op = "insert" -> [b EXCEPT ![e.tabela] = Inserir(@, e.linha)]
    [] e.op = "update" ->
         [b EXCEPT ![e.tabela] = [@ EXCEPT ![e.id] = [c \in DOMAIN @ |->
             IF c \in DOMAIN e.campos THEN e.campos[c] ELSE @[c]]]]
    [] e.op = "delete" -> [b EXCEPT ![e.tabela] = Remover(@, e.id)]
    [] e.op = "delete_all" -> [b EXCEPT ![e.tabela] = Vazia]

RECURSIVE Aplicar(_, _)
\* The statements es run in order on b, up to the first that cannot run.
Aplicar(b, es) ==
  IF es = <<>> \/ ~Possivel(b, Head(es)) THEN b
  ELSE Aplicar(Executar(b, Head(es)), Tail(es))

RECURSIVE Falhou(_, _)
\* Whether some statement of es cannot run.
Falhou(b, es) ==
  IF es = <<>> THEN FALSE
  ELSE IF ~Possivel(b, Head(es)) THEN TRUE
  ELSE Falhou(Executar(b, Head(es)), Tail(es))

\* Where a storage failure may strike a unit of work of n statements: 0 is
\* no failure, k in 1..n is statement k raising, n + 1 is the COMMIT raising.
Falhas(n) == 0 .. n + 1

\* Every statement is committed as soon as it is flushed.
TransacaoAutocommit(b, es, falha) ==
  IF falha = 0 THEN [ok |-> ~Falhou(b, es), bd |-> Aplicar(b, es)]
  ELSE [ok |-> FALSE, bd |-> Aplicar(b, SubSeq(es, 1, falha - 1))]

(***************************************************************************)
(* db.session.commit(): the statements of the unit of work are flushed and *)
(* committed in one transaction.  When a statement or the commit raises,   *)
(* the transaction is rolled back (limpar_vendas does so itself, the other *)
(* handlers leave it to the removal of the session at teardown).           *)
(***************************************************************************)
Transacao(b, es, falha) ==
  IF falha = 0 /\ ~Falhou(b, es) THEN [ok |-> TRUE, bd |-> Aplicar(b, es)]
  ELSE [ok |-> FALSE, bd |-> b]

Gravar(t) ==
  /\ user' = t.bd.user
  /\ produto' = t.bd.produto
  /\ cliente' = t.bd.cliente
  /\ venda' = t.bd.venda

\* What a request answers: "ok" (the page or redirect of success),
\* "redirect_login", "estoque_insuficiente", "importado", or "erro" (an error
\* page or an error message), with the numbers its flash message carries.
Resp(tipo, info) == [tipo |-> tipo, info |-> info]

(***************************************************************************)
(* Text.  The characters of the model are the digits, the sign, the        *)
(* period, the comma, the space, the double quote and letters that occur   *)
(* in no numeral (none of the letters of an exponent, inf or nan).         *)
(***************************************************************************)
Digitos == <<"0", "1", "2", "3", "4", "5", "6", "7", "8", "9">>

EhDigito(c) == \E i \in 1 .. 10 : Digitos[i] = c

DigitoDe(c) == (CHOOSE i \in 1 .. 10 : Digitos[i] = c) - 1

TudoDigitos(s) == \A i \in 1 .. Len(s) : EhDigito(s[i])

RECURSIVE strip(_)
\* str.strip(): leading and trailing white space removed.
strip(s) ==
  IF s = <<>> THEN s
  ELSE IF Head(s) = " " THEN strip(Tail(s))
  ELSE IF s[Len(s)] = " " THEN strip(SubSeq(s, 1, Len(s) - 1))
  ELSE s

\* str.replace(a, b) for one-character a and b.
replace(s, a, b) == [i \in 1 .. Len(s) |-> IF s[i] = a THEN b ELSE s[i]]

RECURSIVE Numero(_)
\* The number a sequence of digits writes.
Numero(s) ==
  IF s = <<>> THEN 0 ELSE 10 * Numero(SubSeq(s, 1, Len(s) - 1)) + DigitoDe(s[Len(s)])

SemSinal(s) == IF s # <<>> /\ Head(s) \in {"+", "-"} THEN Tail(s) ELSE s

Sinal(s) == IF s # <<>> /\ Head(s) = "-" THEN -1 ELSE 1

\* int(text): Nulo for a ValueError, else the integer.
int(texto) ==
  LET t == strip(texto)
      d == SemSinal(t)
  IN IF d # <<>> /\ TudoDigitos(d) THEN Algum(Sinal(t) * Numero(d)) ELSE Nulo

Pontos(s) == {i \in 1 .. Len(s) : s[i] = "."}

\* The hundredths a fraction part writes (places after the second are cut).
Centesimos(f) ==
  IF f = <<>> THEN 0
  ELSE IF Len(f) = 1 THEN 10 * DigitoDe(f[1])
  ELSE 10 * DigitoDe(f[1]) + DigitoDe(f[2])

\* float(text), in hundredths: Nulo for a ValueError.
float(texto) ==
  LET t == strip(texto)
      d == SemSinal(t)
      ps == Pontos(d)
      p == IF ps = {} THEN Len(d) + 1 ELSE CHOOSE i \in ps : TRUE
      inteiro == SubSeq(d, 1, p - 1)
      fracao == SubSeq(d, p + 1, Len(d))
  IN IF /\ Cardinality(ps) <= 1
        /\ TudoDigitos(inteiro) /\ TudoDigitos(fracao)
        /\ Len(inteiro) + Len(fracao) > 0
       THEN Algum(Sinal(t) * (100 * Numero(inteiro) + Centesimos(fracao)))
       ELSE Nulo

RECURSIVE Algarismos(_)
Algarismos(n) ==
  IF n < 10 THEN <<Digitos[n + 1]>> ELSE Algarismos(n \div 10) \o <<Digitos[(n % 10) + 1]>>

\* str(n) of an integer.
str_int(n) == IF n < 0 THEN <<"-">> \o Algarismos(-n) ELSE Algarismos(n)

\* str(x) of a float given in hundredths: the shortest decimal, with at
\* least one place.
str_float(x) ==
  LET a == IF x < 0 THEN -x ELSE x
      f == a % 100
  IN (IF x < 0 THEN <<"-">> ELSE <<>>) \o Algarismos(a \div 100) \o <<".">> \o
     (IF f % 10 = 0 THEN <<Digitos[(f \div 10) + 1]>>
      ELSE <<Digitos[(f \div 10) + 1], Digitos[(f % 10) + 1]>>)

(***************************************************************************)
(* The csv module, in its default dialect (comma, double quote, minimal    *)
(* quoting), on one line of text.                                          *)
(***************************************************************************)
PrecisaAspas(campo) == \E i \in 1 .. Len(campo) : campo[i] \in {",", "\""}

RECURSIVE DobrarAspas(_)
DobrarAspas(campo) ==
  IF campo = <<>> THEN <<>>
  ELSE (IF Head(campo) = "\"" THEN <<"\"", "\"">> ELSE <<Head(campo)>>)
       \o DobrarAspas(Tail(campo))

EscreverCampo(campo) ==
  IF PrecisaAspas(campo) THEN <<"\"">> \o DobrarAspas(campo) \o <<"\"">> ELSE campo

RECURSIVE Juntar(_)
Juntar(campos) ==
  IF Len(campos) = 1 THEN EscreverCampo(campos[1])
  ELSE EscreverCampo(Head(campos)) \o <<",">> \o Juntar(Tail(campos))

\* csv.writer(...).writerow(campos): the line written, without its
\* terminator.  A row of one empty field is written as a quoted empty field.
writerow(campos) == IF campos = << <<>> >> THEN <<"\"", "\"">> ELSE Juntar(campos)

RECURSIVE LerCampos(_, _, _, _)
\* The reader's automaton: s is the text left, estado one of "inicio" (at
\* the start of a field), "campo" (in an unquoted field), "aspas" (in a
\* quoted field), "aspa_em_aspas" (after a quote in a quoted field).
LerCampos(s, estado, atual, campos) ==
  IF s = <<>> THEN Append(campos, atual)
  ELSE LET c == Head(s)
           r == Tail(s)
       IN CASE estado = "inicio" ->
                 IF c = "\"" THEN LerCampos(r, "aspas", atual, campos)
                 ELSE IF c = "," THEN LerCampos(r, "inicio", <<>>, Append(campos, atual))
                 ELSE LerCampos(r, "campo", Append(atual, c), campos)
            [] estado = "campo" ->
                 IF c = "," THEN LerCampos(r, "inicio", <<>>, Append(campos, atual))
                 ELSE LerCampos(r, "campo", Append(atual, c), campos)
            [] estado = "aspas" ->
                 IF c = "\"" THEN LerCampos(r, "aspa_em_aspas", atual, campos)
                 ELSE LerCampos(r, "aspas", Append(atual, c), campos)
            [] estado = "aspa_em_aspas" ->
                 IF c = "\"" THEN LerCampos(r, "aspas", Append(atual, c), campos)
                 ELSE IF c = "," THEN LerCampos(r, "inicio", <<>>, Append(campos, atual))
                 ELSE LerCampos(r, "campo", Append(atual, c), campos)

\* One row of csv.reader: an empty line reads as the empty row.
reader(linha) == IF linha = <<>> THEN <<>> ELSE LerCampos(linha, "inicio", <<>>, <<>>)

(***************************************************************************)
(* The authentication gate.                                                *)
(***************************************************************************)
Ocioso == Nulo

Intocados == UNCHANGED <<user, produto, cliente, venda, sessao, wk, arquivo, imp>>

\* current_user.is_authenticated: the session names a user.
Autenticado == sessao # Nulo

\* A route whose decorator is missing.
SemLoginRequired == TRUE

\* @login_required: the view runs only for an authenticated user.
login_required == Autenticado

\* @login_required on a request without a session: redirect to login_view.
NaoAutorizado == resposta' = Resp("redirect_login", <<>>) /\ Intocados

\* generate_password_hash / check_password_hash: a one-way digest.
generate_password_hash(password) == <<"hash", password>>

check_password(u, password) == u.password_hash = generate_password_hash(password)

ComUsername(username) == {i \in DOMAIN user : user[i].username = username}

registrar(username, password) ==
  IF ComUsername(username) # {}
    THEN resposta' = Resp("erro", <<>>) /\ Intocados
    ELSE /\ Gravar(Transacao(bd, << [op |-> "insert", tabela |-> "user",
                   linha |-> [username |-> username,
                              password_hash |-> generate_password_hash(password)]] >>, 0))
         /\ resposta' = Resp("ok", <<>>)
         /\ UNCHANGED <<sessao, wk, arquivo, imp>>

login(username, password) ==
  IF Autenticado THEN resposta' = Resp("ok", <<>>) /\ Intocados
  ELSE IF \E i \in ComUsername(username) : check_password(user[i], password)
    THEN /\ sessao' = Algum(CHOOSE i \in ComUsername(username) : TRUE)
         /\ resposta' = Resp("ok", <<>>)
         /\ UNCHANGED <<user, produto, cliente, venda, wk, arquivo, imp>>
    ELSE resposta' = Resp("erro", <<>>) /\ Intocados

logout ==
  IF ~login_required THEN NaoAutorizado
  ELSE /\ sessao' = Nulo
       /\ resposta' = Resp("ok", <<>>)
       /\ UNCHANGED <<user, produto, cliente, venda, wk, arquivo, imp>>

(***************************************************************************)
(* Pages that only read: index, clientes, vendas, relatorios,              *)
(* gerenciamento, the GET forms, baixar_modelo and exportar.               *)
(***************************************************************************)
Paginas == {"index", "clientes", "vendas", "relatorios", "gerenciamento",
            "baixar_modelo", "exportar"}

pagina(rota) ==
  IF ~login_required THEN NaoAutorizado
  ELSE resposta' = Resp("ok", <<>>) /\ Intocados

(***************************************************************************)
(* Inventory and customers.                                                *)
(***************************************************************************)
\* A handler's single-statement unit of work, committed.
Commit(es) ==
  /\ Gravar(Transacao(bd, es, 0))
  /\ resposta' = Resp("ok", <<>>)
  /\ UNCHANGED <<sessao, wk, arquivo, imp>>

NaoEncontrado == resposta' = Resp("erro", <<>>) /\ Intocados

adicionar(p) ==
  IF ~login_required THEN NaoAutorizado
  ELSE /\ NovoId(produto) <= MaxProdutos
       /\ Commit(<< [op |-> "insert", tabela |-> "produto", linha |-> p] >>)

\* The sales of the edited product are recomputed at its new price.
editarRecalculaVendas(id, p) ==
  IF ~login_required THEN NaoAutorizado
  ELSE IF id \notin DOMAIN produto THEN NaoEncontrado
  ELSE /\ produto' = [produto EXCEPT ![id] = p]
       /\ venda' = [v \in DOMAIN venda |->
                      IF venda[v].produto_id = id
                        THEN [venda[v] EXCEPT !.valor_total = p.preco * venda[v].quantidade]
                        ELSE venda[v]]
       /\ resposta' = Resp("ok", <<>>)
       /\ UNCHANGED <<user, cliente, sessao, wk, arquivo, imp>>

editar(id, p) ==
  IF ~login_required THEN NaoAutorizado
  ELSE IF id \notin DOMAIN produto THEN NaoEncontrado
  ELSE Commit(<< [op |-> "update", tabela |-> "produto", id |-> id, campos |-> p] >>)

deletar(id) ==
  IF ~login_required THEN NaoAutorizado
  ELSE IF id \notin DOMAIN produto THEN NaoEncontrado
  ELSE Commit(<< [op |-> "delete", tabela |-> "produto", id |-> id] >>)

adicionar_cliente(c) ==
  IF ~login_required THEN NaoAutorizado
  ELSE /\ NovoId(cliente) <= MaxClientes
       /\ Commit(<< [op |-> "insert", tabela |-> "cliente", linha |-> c] >>)

editar_cliente(id, c) ==
  IF ~login_required THEN NaoAutorizado
  ELSE IF id \notin DOMAIN cliente THEN NaoEncontrado
  ELSE Commit(<< [op |-> "update", tabela |-> "cliente", id |-> id, campos |-> c] >>)

deletar_cliente(id) ==
  IF ~login_required THEN NaoAutorizado
  ELSE IF id \notin DOMAIN cliente THEN NaoEncontrado
  ELSE Commit(<< [op |-> "delete", tabela |-> "cliente", id |-> id] >>)

\* A table within the bounds of the model.
Limitado(tabela) ==
  \A i \in DOMAIN tabela :
    /\ i <= MaxProdutos
    /\ tabela[i].quantidade \in -MaxEstoque .. MaxEstoque

(***************************************************************************)
(* nova_venda (POST /vendas/nova).                                         *)
(***************************************************************************)
InsuficienteSemVerificar(p, quantidade) == FALSE

InsuficientePorUm(p, quantidade) == p.quantidade + 1 < quantidade

\* The stock check of line 253.
Insuficiente(p, quantidade) == p.quantidade < quantidade

LinhaVenda(r) ==
  [quantidade |-> r.quantidade, valor_total |-> r.lido.preco * r.quantidade,
   produto_id |-> r.produto_id, cliente_id |-> r.cliente_id]

EscritasVendaSemBaixa(r) ==
  << [op |-> "insert", tabela |-> "venda", linha |-> LinhaVenda(r)] >>

\* The unit of work of lines 257-263: the ORM writes the attribute value it
\* computed from the row it loaded, and only when that value changed; the
\* product's UPDATE is flushed before the sale's INSERT.
EscritasVenda(r) ==
  (IF r.quantidade # 0
     THEN << [op |-> "update", tabela |-> "produto", id |-> r.produto_id,
              campos |-> [quantidade |-> r.lido.quantidade - r.quantidade]] >>
     ELSE << >>)
  \o << [op |-> "insert", tabela |-> "venda", linha |-> LinhaVenda(r)] >>

\* Lines 247-255: the request is parsed, the product loaded and the stock
\* checked.  A request that passes the check holds the row it loaded.
nova_venda(w, produto_id, cliente_id, quantidade) ==
  /\ wk[w] = Ocioso
  /\ IF ~login_required THEN NaoAutorizado
     ELSE IF produto_id \notin DOMAIN produto
       THEN resposta' = Resp("erro", <<>>) /\ Intocados
     ELSE IF Insuficiente(produto[produto_id], quantidade)
       THEN /\ resposta' = Resp("estoque_insuficiente",
                                <<produto[produto_id].quantidade>>)
            /\ Intocados
     ELSE /\ wk' = [wk EXCEPT ![w] = Algum([produto_id |-> produto_id,
                                            cliente_id |-> cliente_id,
                                            quantidade |-> quantidade,
                                            lido |-> produto[produto_id]])]
          /\ UNCHANGED <<user, produto, cliente, venda, sessao, resposta, arquivo, imp>>

\* Lines 257-266: the sale is computed from the loaded row and committed.
nova_venda_commit(w, falha) ==
  /\ wk[w] # Ocioso
  /\ LET r == Valor(wk[w])
         es == EscritasVenda(r)
         t == Transacao(bd, es, falha)
     IN /\ falha \in Falhas(Len(es))
        /\ NovoId(venda) <= MaxVendas
        /\ Limitado(t.bd.produto)
        /\ Gravar(t)
        /\ resposta' = IF t.ok THEN Resp("ok", <<>>)
                       ELSE Resp("erro", <<>>)
        /\ wk' = [wk EXCEPT ![w] = Ocioso]
        /\ UNCHANGED <<sessao, arquivo, imp>>

(***************************************************************************)
(* limpar_vendas.                                                          *)
(***************************************************************************)
limpar_vendas(falha) ==
  IF ~login_required THEN NaoAutorizado
  ELSE LET es == << [op |-> "delete_all", tabela |-> "venda"] >>
           t == Transacao(bd, es, falha)
       IN /\ falha \in Falhas(Len(es))
          /\ Gravar(t)
          /\ resposta' = IF t.ok THEN Resp("ok", <<>>)
                         ELSE Resp("erro", <<>>)
          /\ UNCHANGED <<sessao, wk, arquivo, imp>>

(***************************************************************************)
(* importar_csv: one row of the loop of lines 335-353.  visao is the       *)
(* produto table as the session sees it (committed rows and the rows the   *)
(* request has flushed); the result names what the row did and the         *)
(* statement it adds to the unit of work.                                  *)
(***************************************************************************)
ComNome(visao, nome) == {i \in DOMAIN visao : visao[i].nome = nome}

\* Produto.query.filter_by(nome=nome).first(): the row of least key.
Primeiro(S) == CHOOSE x \in S : \A y \in S : x <= y

Ignorada == [tipo |-> "ignorada", es |-> <<>>]

CustoSobrescreveSempre(prod, preco_custo) ==
  [c \in {"preco_compra"} |-> Algum(preco_custo)]

\* Line 348: the purchase cost is overwritten only by a positive cost.
CustoAtualizado(prod, preco_custo) ==
  IF preco_custo > 0 /\ prod.preco_compra # Algum(preco_custo)
    THEN [c \in {"preco_compra"} |-> Algum(preco_custo)]
    ELSE [c \in {} |-> Nulo]

\* Line 347: the row's quantity is added to the stock.
QuantidadeAtualizada(prod, qtd) ==
  IF qtd # 0 THEN [c \in {"quantidade"} |-> prod.quantidade + qtd]
  ELSE [c \in {} |-> Nulo]

Unir(f, g) == [c \in DOMAIN f \cup DOMAIN g |-> IF c \in DOMAIN f THEN f[c] ELSE g[c]]

Upsert(visao, nome, qtd, preco_venda, preco_custo, validade) ==
  IF ComNome(visao, nome) # {}
    THEN LET id == Primeiro(ComNome(visao, nome))
             campos == Unir(QuantidadeAtualizada(visao[id], qtd),
                            CustoAtualizado(visao[id], preco_custo))
         IN [tipo |-> "atualizado",
             es |-> IF DOMAIN campos = {} THEN <<>>
                    ELSE << [op |-> "update", tabela |-> "produto", id |-> id,
                             campos |-> campos] >>]
    ELSE [tipo |-> "novo",
          es |-> << [op |-> "insert", tabela |-> "produto",
                     linha |-> [nome |-> nome, quantidade |-> qtd,
                                preco |-> preco_venda,
                                preco_compra |-> Algum(preco_custo),
                                validade |-> Algum(validade)]] >>]

LinhaImportada(visao, linha) ==
  LET row == reader(linha)
  IN IF Len(row) < 3 THEN Ignorada
     ELSE LET nome == strip(row[1])
              qtd == int(row[2])
              preco_venda == float(replace(row[3], ",", "."))
              preco_custo == IF Len(row) > 3 /\ row[4] # <<>>
                               THEN float(replace(row[4], ",", "."))
                               ELSE Algum(0)
              validade == IF Len(row) > 4 THEN strip(row[5]) ELSE <<>>
          IN IF nome = <<>> \/ qtd = Nulo \/ preco_venda = Nulo \/ preco_custo = Nulo
               THEN Ignorada
               ELSE Upsert(visao, nome, Valor(qtd), Valor(preco_venda),
                           Valor(preco_custo), validade)

\* The session's view of produto after the statements es.
Visao(es) == Aplicar(bd, es).produto

\* One pass of the loop: the row's counter and statement join the request's.
Passo(r, linha) ==
  LET l == LinhaImportada(Visao(r.es), linha)
  IN [r EXCEPT !.es = @ \o l.es,
               !.novos = @ + (IF l.tipo = "novo" THEN 1 ELSE 0),
               !.atualizados = @ + (IF l.tipo = "atualizado" THEN 1 ELSE 0)]

RECURSIVE Importar(_, _, _)
\* The loop over the rows i.. of linhas, from the request state r.
Importar(linhas, i, r) ==
  IF i > Len(linhas) THEN r ELSE Importar(linhas, i + 1, Passo(r, linhas[i]))

\* Lines 322-332: what stops an upload before its rows are read.  An upload
\* is Nulo (no arquivo_csv part) or a file name, whether its bytes decode as
\* UTF-8, and its lines.
Recusa(upload) ==
  IF upload = Nulo THEN "erro"
  ELSE IF Valor(upload).filename = <<>> THEN "erro"
  ELSE IF ~Valor(upload).utf8 THEN "erro"
  ELSE "nenhuma"

\* importar_csv as one step: the whole request, with the storage failure
\* that may strike its unit of work.
importar_csv(upload) ==
  IF ~login_required THEN NaoAutorizado
  ELSE IF Recusa(upload) # "nenhuma"
    THEN resposta' = Resp(Recusa(upload), <<>>) /\ Intocados
  ELSE LET r == Importar(Valor(upload).linhas, 2,
                         [es |-> <<>>, novos |-> 0, atualizados |-> 0])
       IN /\ Limitado(Visao(r.es))
          /\ \E falha \in Falhas(Len(r.es)) :
               LET t == Transacao(bd, r.es, falha)
               IN /\ Gravar(t)
                  /\ resposta' = IF t.ok
                                   THEN Resp("importado", <<r.novos, r.atualizados>>)
                                   ELSE Resp("erro", <<>>)
          /\ UNCHANGED <<sessao, wk, arquivo, imp>>

(***************************************************************************)
(* importar_csv row by row: imp is the request, with the table it found    *)
(* (antes), the row it is at, its unit of work, and how it ended ("feito"  *)
(* when committed, "falhou" when rolled back).                             *)
(***************************************************************************)
\* An import is between its first row and its commit.
EmCurso == IF imp = Nulo THEN FALSE ELSE Valor(imp).fase = "linhas"

importar_inicio(upload) ==
  /\ imp = Nulo
  /\ IF ~login_required THEN NaoAutorizado
     ELSE IF Recusa(upload) # "nenhuma"
       THEN resposta' = Resp(Recusa(upload), <<>>) /\ Intocados
     ELSE /\ imp' = Algum([fase |-> "linhas", linhas |-> Valor(upload).linhas,
                           i |-> 2, es |-> <<>>, novos |-> 0, atualizados |-> 0,
                           antes |-> produto])
          /\ UNCHANGED <<user, produto, cliente, venda, sessao, wk, resposta, arquivo>>

importar_linha ==
  /\ EmCurso
  /\ Valor(imp).i <= Len(Valor(imp).linhas)
  /\ LET r == Valor(imp)
     IN imp' = Algum([Passo(r, r.linhas[r.i]) EXCEPT !.i = @ + 1])
  /\ UNCHANGED <<user, produto, cliente, venda, sessao, wk, resposta, arquivo>>

importar_commit(falha) ==
  /\ EmCurso
  /\ Valor(imp).i > Len(Valor(imp).linhas)
  /\ LET r == Valor(imp)
         t == Transacao(bd, r.es, falha)
     IN /\ falha \in Falhas(Len(r.es))
        /\ Gravar(t)
        /\ resposta' = IF t.ok THEN Resp("importado", <<r.novos, r.atualizados>>)
                       ELSE Resp("erro", <<>>)
        /\ imp' = Algum([r EXCEPT !.fase = IF t.ok THEN "feito" ELSE "falhou"])
        /\ UNCHANGED <<sessao, wk, arquivo>>

(***************************************************************************)
(* exportar and baixar_modelo, with the file they send kept in arquivo.    *)
(***************************************************************************)
CabecalhoProdutos ==
  << <<"I", "D">>,
     <<"N", "o", "m", "e">>,
     <<"Q", "u", "a", "n", "t", "i", "d", "a", "d", "e">>,
     <<"P", "r", "e", "ç", "o", " ", "V", "e", "n", "d", "a">>,
     <<"P", "r", "e", "ç", "o", " ", "C", "u", "s", "t", "o">> >>

CabecalhoModelo ==
  << <<"n", "o", "m", "e">>,
     <<"q", "u", "a", "n", "t", "i", "d", "a", "d", "e">>,
     <<"p", "r", "e", "c", "o", "_", "v", "e", "n", "d", "a">>,
     <<"p", "r", "e", "c", "o", "_", "c", "u", "s", "t", "o">>,
     <<"v", "a", "l", "i", "d", "a", "d", "e">> >>

ExemploModelo ==
  << <<"E", "x", "e", "m", "p", "l", "o", " ", "C", "a", "m", "i", "s", "e", "t", "a">>,
     <<"1", "0">>,
     <<"5", "0", ".", "0", "0">>,
     <<"2", "5", ".", "0", "0">>,
     <<>> >>

\* str() of a nullable float, as csv.writer writes it: None is the empty
\* field.
str_opt(o) == IF o = Nulo THEN <<>> ELSE str_float(Valor(o))

RECURSIVE Ordenados(_)
\* The keys of a set, in ascending order.
Ordenados(S) ==
  IF S = {} THEN <<>> ELSE <<Primeiro(S)>> \o Ordenados(S \ {Primeiro(S)})

\* Lines 367-370: the header and one row per product.
LinhasExportadas(tabela) ==
  <<writerow(CabecalhoProdutos)>> \o
  [k \in 1 .. Cardinality(DOMAIN tabela) |->
     LET id == Ordenados(DOMAIN tabela)[k]
         p == tabela[id]
     IN writerow(<< str_int(id), p.nome, str_int(p.quantidade), str_float(p.preco),
                    str_opt(p.preco_compra) >>)]

exportar ==
  /\ ~EmCurso
  /\ IF ~login_required THEN NaoAutorizado
     ELSE /\ arquivo' = LinhasExportadas(produto)
          /\ resposta' = Resp("ok", <<>>)
          /\ UNCHANGED <<user, produto, cliente, venda, sessao, wk, imp>>

baixar_modelo ==
  /\ ~EmCurso
  /\ IF ~login_required THEN NaoAutorizado
     ELSE /\ arquivo' = <<writerow(CabecalhoModelo), writerow(ExemploModelo)>>
          /\ resposta' = Resp("ok", <<>>)
          /\ UNCHANGED <<user, produto, cliente, venda, sessao, wk, imp>>

(***************************************************************************)
(* Inputs.                                                                 *)
(***************************************************************************)
Nomes == { <<"W">>, <<"1">> }

Precos == {500, 1050}

FormsProduto ==
  [nome : {<<"W">>}, quantidade : {MaxEstoque}, preco : Precos,
   preco_compra : {Nulo}, validade : {Nulo}]

FormsCliente ==
  [nome : {<<"A">>}, telefone : {Nulo}, email : {Nulo}, cidade : {Nulo}]

\* The quantities of the concurrent sale requests.
QtdVenda == 0 .. MaxEstoque

\* The keys a request may name: those of the table and one beyond it.
IdsProduto == 1 .. MaxProdutos + 1

IdsCliente == 1 .. MaxClientes

Usernames == {"ana"}

Passwords == {"s1", "s2"}

\* The password of every account registered in the model.
PasswordsRegistro == {"s1"}

\* The rows of the uploaded sheets: a comma as decimal separator with blank
\* cost and expiry, a positive cost in four columns, a padded new name with
\* a zero cost, a quantity that is no integer, two columns only, a blank
\* name, a price that is no number, a cost of one space.
LinhasDeTeste ==
  << << <<"W">>, <<"2">>, <<"1", "0", ",", "5", "0">>, <<>>, <<>> >>,
     << <<"W">>, <<"1">>, <<"5">>, <<"3", ".", "0", "0">> >>,
     << <<" ", "X", " ">>, <<"1">>, <<"5", ".", "0">>, <<"0">>, <<"v">> >>,
     << <<"W">>, <<"x">>, <<"5">> >>,
     << <<"W">>, <<"1">> >>,
     << <<" ">>, <<"1">>, <<"5">> >>,
     << <<"W">>, <<"1">>, <<"1", ".", "0", ".", "5">> >>,
     << <<"1">>, <<"-", "1">>, <<"5">>, <<" ">> >> >>

\* The sheets a user writes from the template: its header and up to
\* MaxLinhas rows.
MaxLinhas == 2

Planilhas(linhas) ==
  UNION {[1 .. n -> linhas] : n \in 1 .. MaxLinhas}

Upload(celulas) ==
  Algum([filename |-> <<"f">>, utf8 |-> TRUE,
         linhas |-> <<writerow(CabecalhoModelo)>> \o
                    [k \in 1 .. Len(celulas) |-> writerow(celulas[k])]])

\* The column of a downloaded file that its header names as the quantity.
ColunaQuantidade(cabecalho) ==
  CHOOSE k \in 1 .. Len(cabecalho) :
    cabecalho[k] \in {CabecalhoProdutos[3], CabecalhoModelo[2]}

\* A downloaded file with the quantity of every row set to n.
ComQuantidade(arq, n) ==
  LET k == ColunaQuantidade(reader(arq[1]))
  IN [i \in 1 .. Len(arq) |->
        IF i = 1 THEN arq[i]
        ELSE writerow([reader(arq[i]) EXCEPT ![k] = str_int(n)])]

Reimportado(arq, n) ==
  Algum([filename |-> <<"f">>, utf8 |-> TRUE, linhas |-> ComQuantidade(arq, n)])

UploadsRecusados ==
  { Nulo,
    Algum([filename |-> <<>>, utf8 |-> TRUE, linhas |-> <<>>]),
    Algum([filename |-> <<"f">>, utf8 |-> FALSE, linhas |-> <<>>]) }

(***************************************************************************)
(* The application: an empty store, and every route.  One sale request at  *)
(* a time is between its stock check and its commit while the other        *)
(* requests run.                                                           *)
(***************************************************************************)
Init ==
  /\ user = Vazia
  /\ produto = Vazia
  /\ cliente = Vazia
  /\ venda = Vazia
  /\ sessao = Nulo
  /\ wk = [w \in Workers |-> Ocioso]
  /\ resposta = Resp("nenhuma", <<>>)
  /\ arquivo = <<>>
  /\ imp = Nulo

LinhasSpec == {LinhasDeTeste[2], LinhasDeTeste[3]}

\* A sale of one unit, and one of more than the model ever stocks.
QtdVendaSpec == {1, MaxEstoque + 1}

UploadsSpec == UploadsRecusados \cup {Upload(c) : c \in Planilhas(LinhasSpec)}

Next ==
  \/ \E u \in Usernames, s \in PasswordsRegistro : registrar(u, s)
  \/ \E u \in Usernames, s \in Passwords : login(u, s)
  \/ logout
  \/ \E r \in Paginas : pagina(r)
  \/ \E p \in FormsProduto : adicionar(p)
  \/ \E id \in IdsProduto, p \in FormsProduto : editar(id, p)
  \/ \E id \in IdsProduto : deletar(id)
  \/ \E c \in FormsCliente : adicionar_cliente(c)
  \/ \E id \in IdsCliente, c \in FormsCliente : editar_cliente(id, c)
  \/ \E id \in IdsCliente : deletar_cliente(id)
  \/ \E p \in IdsProduto, c \in {Nulo} \cup {Algum(i) : i \in IdsCliente},
        q \in QtdVendaSpec : nova_venda(1, p, c, q)
  \/ \E f \in Falhas(2) : nova_venda_commit(1, f)
  \/ \E u \in UploadsSpec : importar_csv(u)
  \/ \E f \in Falhas(1) : limpar_vendas(f)

Spec == Init /\ [][Next]_vars

(***************************************************************************)
(* Concurrent sales alone: a store with one registered, logged-in user and *)
(* some stock, and requests that only sell.                                *)
(***************************************************************************)
InitVendas ==
  /\ user = Inserir(Vazia, [username |-> "ana",
                            password_hash |-> generate_password_hash("s1")])
  /\ sessao = Algum(1)
  /\ \E q \in 0 .. MaxEstoque, pr \in Precos :
       produto = Inserir(Vazia, [nome |-> <<"W">>, quantidade |-> q, preco |-> pr,
                                 preco_compra |-> Nulo, validade |-> Nulo])
  /\ cliente = Vazia
  /\ venda = Vazia
  /\ wk = [w \in Workers |-> Ocioso]
  /\ resposta = Resp("nenhuma", <<>>)
  /\ arquivo = <<>>
  /\ imp = Nulo

NextVendas ==
  \/ \E w \in Workers, p \in IdsProduto, q \in QtdVenda : nova_venda(w, p, Nulo, q)
  \/ \E w \in Workers, f \in Falhas(2) : nova_venda_commit(w, f)

SpecVendas == InitVendas /\ [][NextVendas]_vars

(***************************************************************************)
(* The bulk data service alone: a store with one registered, logged-in     *)
(* user and one product, files downloaded, edited and uploaded.            *)
(***************************************************************************)
InitCsv ==
  /\ user = Inserir(Vazia, [username |-> "ana",
                            password_hash |-> generate_password_hash("s1")])
  /\ sessao = Algum(1)
  /\ \E n \in Nomes, q \in {0, MaxEstoque}, c \in {Nulo, Algum(250)},
        t \in {Vazia} \cup {Inserir(Vazia, [nome |-> m, quantidade |-> 1,
                                          preco |-> 1050, preco_compra |-> Nulo,
                                          validade |-> Nulo]) : m \in Nomes} :
       produto = Inserir(t, [nome |-> n, quantidade |-> q, preco |-> 500,
                             preco_compra |-> c, validade |-> Nulo])
  /\ cliente = Vazia
  /\ venda = Vazia
  /\ wk = [w \in Workers |-> Ocioso]
  /\ resposta = Resp("nenhuma", <<>>)
  /\ arquivo = <<>>
  /\ imp = Nulo

NextCsv ==
  \/ exportar
  \/ baixar_modelo
  \/ \E u \in UploadsRecusados
               \cup {Upload(c) : c \in Planilhas({LinhasDeTeste[k] : k \in 1 .. 8})}
               \cup (IF arquivo = <<>> THEN {}
                     ELSE {Reimportado(arquivo, n) : n \in 0 .. 1}) :
        importar_inicio(u)
  \/ importar_linha
  \/ \E f \in Falhas(MaxLinhas) : importar_commit(f)

SpecCsv == InitCsv /\ [][NextCsv]_vars

(***************************************************************************)
(* Properties.                                                             *)
(***************************************************************************)
RECURSIVE Soma(_, _)
\* The sum of f over the finite set S.
Soma(f, S) ==
  IF S = {} THEN 0
  ELSE LET x == CHOOSE y \in S : TRUE IN f[x] + Soma(f, S \ {x})

\* The units sold of product p, over the sale rows.
Vendido(tabela, p) ==
  Soma([v \in DOMAIN tabela |-> tabela[v].quantidade],
       {v \in DOMAIN tabela : tabela[v].produto_id = p})

\* Worker w commits or abandons its sale in this step.
TerminaVenda(w) == wk[w] # Ocioso /\ wk'[w] = Ocioso

\* The sale row of the request r is the one row this step adds to venda.
VendaInserida(r) ==
  /\ DOMAIN venda' = DOMAIN venda \cup {NovoId(venda)}
  /\ \A v \in DOMAIN venda : venda'[v] = venda[v]
  /\ venda'[NovoId(venda)] = [quantidade |-> r.quantidade,
                              valor_total |-> r.lido.preco * r.quantidade,
                              produto_id |-> r.produto_id,
                              cliente_id |-> r.cliente_id]

\* C1: under any interleaving of concurrent sale requests, starting from a
\* stock that is not negative, the committed quantity of every product is
\* never negative.
C1_EstoqueNaoNegativo == \A p \in DOMAIN produto : produto[p].quantidade >= 0

\* Two sales of positive quantities are committed whose units exceed any
\* initial stock: they passed their stock checks concurrently.
C1_Witness ==
  /\ Cardinality(DOMAIN venda) = 2
  /\ \A v \in DOMAIN venda : venda[v].quantidade > 0
  /\ Vendido(venda, 1) > MaxEstoque
  /\ \A w \in Workers : wk[w] = Ocioso

\* C2: a sale request for more than the product's current quantity answers
\* "insufficient stock", with the quantity available, and changes nothing:
\* no table changes and the request ends there.
C2_EstoqueInsuficienteNaoMuda ==
  [][\A w \in Workers, p \in DOMAIN produto, q \in QtdVenda :
       (nova_venda(w, p, Nulo, q) /\ q > produto[p].quantidade)
       => /\ resposta' = Resp("estoque_insuficiente", <<produto[p].quantidade>>)
          /\ UNCHANGED <<user, produto, cliente, venda>>
          /\ wk'[w] = Ocioso]_vars

\* A request was refused for a stock that is still what it was told.
C2_Witness ==
  /\ resposta.tipo = "estoque_insuficiente"
  /\ 1 \in DOMAIN produto
  /\ resposta.info = <<produto[1].quantidade>>
  /\ venda # Vazia

\* No other sale is in flight and the product is as worker w loaded it.
Sozinha(w) ==
  /\ \A o \in Workers \ {w} : wk[o] = Ocioso
  /\ Valor(wk[w]).produto_id \in DOMAIN produto
  /\ produto[Valor(wk[w]).produto_id] = Valor(wk[w]).lido

\* C3: a sale that succeeds with no concurrent request leaves the product's
\* quantity at its quantity before minus the quantity sold, changes no other
\* field of it, and adds exactly one sale row, for that product, with the
\* quantity sold and the price before times that quantity.
C3_VendaSozinha ==
  [][\A w \in Workers :
       (TerminaVenda(w) /\ Sozinha(w) /\ resposta'.tipo = "ok")
       => LET r == Valor(wk[w])
          IN /\ produto' = [produto EXCEPT ![r.produto_id].quantidade =
                                             @ - r.quantidade]
             /\ VendaInserida(r)
             /\ venda'[NovoId(venda)].valor_total
                  = produto[r.produto_id].preco * r.quantidade]_vars

\* The whole stock was sold in one sale.
C3_Witness ==
  /\ DOMAIN venda = {1}
  /\ venda[1].quantidade = MaxEstoque
  /\ venda[1].valor_total = produto[1].preco * MaxEstoque
  /\ produto[1].quantidade = 0
  /\ resposta.tipo = "ok"

\* C4: the step that ends a sale request commits both the stock decrement
\* and the sale row, or neither, also when the request fails at a statement
\* or at the commit.
C4_VendaAtomica ==
  [][\A w \in Workers :
       TerminaVenda(w)
       => LET r == Valor(wk[w])
          IN \/ UNCHANGED <<user, produto, cliente, venda>>
             \/ /\ VendaInserida(r)
                /\ IF r.quantidade = 0 THEN produto' = produto
                   ELSE produto' = [produto EXCEPT ![r.produto_id].quantidade =
                                      r.lido.quantidade - r.quantidade]]_vars

\* A sale is committed, row and decrement, and a later request failed.
C4_Witness ==
  /\ resposta.tipo = "erro"
  /\ DOMAIN venda = {1}
  /\ venda[1].quantidade > 0
  /\ produto[1].quantidade < MaxEstoque
  /\ \A w \in Workers : wk[w] = Ocioso

\* C5: no step changes the valor_total of a sale row that it keeps.
C5_ValorTotalFixo ==
  [][\A v \in DOMAIN venda \cap DOMAIN venda' :
       venda'[v].valor_total = venda[v].valor_total]_vars

\* A sale row whose product now has another price than the one it was sold
\* at.
C5_Witness ==
  \E v \in DOMAIN venda :
    /\ venda[v].produto_id \in DOMAIN produto
    /\ venda[v].quantidade > 0
    /\ venda[v].valor_total # produto[venda[v].produto_id].preco * venda[v].quantidade

\* The fields of a valid row, read as lines 336-343 read them.
Campos(linha) ==
  LET row == reader(linha)
  IN [nome |-> strip(row[1]),
      qtd |-> int(row[2]),
      preco_venda |-> float(replace(row[3], ",", ".")),
      preco_custo |-> IF Len(row) > 3 /\ row[4] # <<>>
                        THEN float(replace(row[4], ",", ".")) ELSE Algum(0),
      validade |-> IF Len(row) > 4 THEN strip(row[5]) ELSE <<>>]

Valida(linha) ==
  /\ Len(reader(linha)) >= 3
  /\ Campos(linha).nome # <<>>
  /\ Campos(linha).qtd # Nulo
  /\ Campos(linha).preco_venda # Nulo
  /\ Campos(linha).preco_custo # Nulo

\* C6: for every valid row the import reads: when a product of that name is
\* in the table, no product is created, that product's quantity grows by the
\* row's quantity and its purchase cost becomes the row's cost only when that
\* cost is positive, all else unchanged; otherwise exactly one product is
\* inserted, with the row's values.  The commit writes the table so built.
C6_LinhaImportada ==
  [][(EmCurso /\ imp' # imp)
     => LET r == Valor(imp)
            v == Visao(r.es)
        IN IF r.i > Len(r.linhas)
             THEN resposta'.tipo = "importado" => produto' = v
           ELSE LET n == Visao(Valor(imp').es)
                    c == Campos(r.linhas[r.i])
                IN Valida(r.linhas[r.i]) =>
                   IF ComNome(v, c.nome) # {}
                     THEN LET id == Primeiro(ComNome(v, c.nome))
                          IN n = [v EXCEPT
                                    ![id].quantidade = @ + Valor(c.qtd),
                                    ![id].preco_compra =
                                       IF Valor(c.preco_custo) > 0
                                         THEN c.preco_custo ELSE @]
                     ELSE /\ DOMAIN n = DOMAIN v \cup {NovoId(v)}
                          /\ \A i \in DOMAIN v : n[i] = v[i]
                          /\ n[NovoId(v)] =
                               [nome |-> c.nome, quantidade |-> Valor(c.qtd),
                                preco |-> Valor(c.preco_venda),
                                preco_compra |-> c.preco_custo,
                                validade |-> Algum(c.validade)]]_vars

\* An import of a row with a blank cost for a product that has a cost, and
\* of a row that creates a product, is committed.
C6_Witness ==
  /\ imp # Nulo
  /\ Valor(imp).fase = "feito"
  /\ Valor(imp).novos = 1
  /\ Valor(imp).atualizados = 1
  /\ Valor(imp).linhas[2] = writerow(LinhasDeTeste[1])
  /\ 1 \in DOMAIN Valor(imp).antes
  /\ Valor(imp).antes[1].preco_compra = Algum(250)
  /\ produto[1].preco_compra = Algum(250)
  /\ produto[1].quantidade = Valor(imp).antes[1].quantidade + 2

\* C7: when the file exported from the products is imported with the
\* quantity of its rows set to n, every product's quantity grows by n.
C7_RoundTrip ==
  (imp # Nulo /\ Valor(imp).fase = "feito")
  => \A n \in 0 .. 1 :
       Valor(imp).linhas = ComQuantidade(LinhasExportadas(Valor(imp).antes), n)
       => \A p \in DOMAIN Valor(imp).antes :
            /\ p \in DOMAIN produto
            /\ produto[p].quantidade = Valor(imp).antes[p].quantidade + n

\* The tables an upload leaves when all its rows are committed.
Importado(u) ==
  Visao(Importar(Valor(u).linhas, 2, [es |-> <<>>, novos |-> 0, atualizados |-> 0]).es)

\* C8: a request that answers with an error changes no table; an import
\* that answers with its counts has committed the effect of every row of its
\* file, and nothing else; limpar_vendas leaves no sale row when it succeeds
\* and every sale row when it fails, and changes no other table.
C8_TudoOuNada ==
  [][/\ resposta'.tipo = "erro" => UNCHANGED <<user, produto, cliente, venda>>
     /\ resposta'.tipo = "importado" /\ wk' = wk
        => /\ \E u \in UploadsSpec \ UploadsRecusados : produto' = Importado(u)
           /\ UNCHANGED <<user, cliente, venda>>
     /\ \A f \in Falhas(1) :
          limpar_vendas(f)
          => /\ venda' = IF resposta'.tipo = "ok" THEN Vazia ELSE venda
             /\ UNCHANGED <<user, produto, cliente>>]_vars

\* An import of two rows, one inserting and one updating, is committed
\* while sale rows exist.
C8_Witness ==
  /\ resposta = Resp("importado", <<1, 1>>)
  /\ venda # Vazia
  /\ produto # Vazia

\* C9: without a session, a step is a registration, a login, the end of a
\* sale request that was admitted with a session, or a redirect to the login
\* page that changes nothing.
C9_SessaoExigida ==
  [][sessao = Nulo
     => \/ /\ resposta' = Resp("redirect_login", <<>>)
           /\ UNCHANGED <<user, produto, cliente, venda, sessao, wk, arquivo, imp>>
        \/ \E u \in Usernames, s \in Passwords : registrar(u, s) \/ login(u, s)
        \/ \E w \in Workers : TerminaVenda(w)]_vars

\* After a logout, a request was redirected and the data stand.
C9_Witness ==
  /\ sessao = Nulo
  /\ resposta.tipo = "redirect_login"
  /\ produto # Vazia
  /\ venda # Vazia

\* C10: under any interleaving of concurrent sale requests, no step changes
\* the product's quantity plus the units its sale rows sold.
C10_Conservacao ==
  [][\A p \in DOMAIN produto :
       produto'[p].quantidade + Vendido(venda', p)
         = produto[p].quantidade + Vendido(venda, p)]_vars

====
